---- MODULE Spec2Model ----
(***************************************************************************)
(* CircularBuffer<T> of src/mod.ts: a JavaScript array `_buffer`, a        *)
(* logical size `_size` and the physical index `_position` of the oldest   *)
(* element.  The object is one record, every method is an operator from    *)
(* the object (and the arguments) to the object after the call and the     *)
(* value returned, and every action is one whole method call.              *)
(*                                                                         *)
(* JavaScript values.  Stored items are the integers 1..MaxVal.            *)
(* `undefined` (a hole of `new Array(n)`, a read past the end of an array, *)
(* the empty result of pop/shift/get) is Undefined.  `x % 0` is NaN; NaN   *)
(* is contagious through + and %, and `a[NaN] = v` sets the property "NaN" *)
(* of the array without touching its length or its indexed slots.  An      *)
(* array is therefore a record: `elems`, the indexed slots (slot i of the  *)
(* source is elems[i + 1]), and `nanProp`, the value of its "NaN" property.*)
(***************************************************************************)
EXTENDS Integers, Sequences, FiniteSets, TLC

\* ------------------------------------------------------------------ bounds
MaxCap == 2
MaxPush == 3
MaxVal == 2

\* ------------------------------------------------------- JavaScript values
Undefined == 0
NaN == -1

Values == 1..MaxVal
Capacities == 0..MaxCap
Indices == (0 - MaxCap - 2)..(MaxCap + 1)

SeqsUpTo(n) == UNION {[1..k -> Values] : k \in 0..n}

Min(a, b) == IF a <= b THEN a ELSE b
Max(a, b) == IF a >= b THEN a ELSE b

\* a % b of JavaScript numbers: NaN for a zero divisor or a NaN operand,
\* otherwise the remainder with the sign of the dividend.
JsMod(a, b) ==
  IF a = NaN \/ b = NaN \/ b = 0 THEN NaN
  ELSE IF a >= 0 THEN a % b ELSE 0 - ((0 - a) % b)

\* a + b of JavaScript numbers.
JsAdd(a, b) == IF a = NaN \/ b = NaN THEN NaN ELSE a + b

\* new Array(n): n holes.
NewArray(n) == [elems |-> [i \in 1..n |-> Undefined], nanProp |-> Undefined]

\* [...iterable]: a dense array of the items.
ArrayOf(s) == [elems |-> s, nanProp |-> Undefined]

\* a.length
Length(a) == Len(a.elems)

\* a[i] as an expression.
ArrGet(a, i) ==
  IF i = NaN THEN a.nanProp
  ELSE IF i >= 0 /\ i < Len(a.elems) THEN a.elems[i + 1]
  ELSE Undefined

\* a[i] = v.  An index at or past the length grows the array with holes.
ArrSet(a, i, v) ==
  IF i = NaN THEN [a EXCEPT !.nanProp = v]
  ELSE IF i < Len(a.elems) THEN [a EXCEPT !.elems[i + 1] = v]
  ELSE [a EXCEPT !.elems =
          [k \in 1..(i + 1) |->
             IF k <= Len(a.elems) THEN a.elems[k]
             ELSE IF k = i + 1 THEN v ELSE Undefined]]

\* a.length = 0: drops every indexed slot, keeps other properties.
Truncate(a) == [a EXCEPT !.elems = <<>>]

\* a.slice(): copies the indexed slots only.
Slice(a) == [elems |-> a.elems, nanProp |-> Undefined]

\* ------------------------------------------------------------- the object
CircularBuffer(b, s, p) == [_buffer |-> b, _size |-> s, _position |-> p]

from(iterable) == CircularBuffer(ArrayOf(iterable), Len(iterable), 0)

withCapacity(c) == CircularBuffer(NewArray(c), 0, 0)

size(b) == b._size

capacity(b) == Length(b._buffer)

\* get with the bound of set: index -_size is taken as out of range.
get_strictLowerBound(b, index) ==
  IF index <= 0 - b._size \/ index >= b._size THEN Undefined
  ELSE LET boundedIndex == IF index < 0 THEN b._size + index ELSE index
       IN ArrGet(b._buffer, JsMod(JsAdd(b._position, boundedIndex), Length(b._buffer)))

get(b, index) ==
  IF index <= 0 - b._size - 1 \/ index >= b._size THEN Undefined
  ELSE LET boundedIndex == IF index < 0 THEN b._size + index ELSE index
       IN ArrGet(b._buffer, JsMod(JsAdd(b._position, boundedIndex), Length(b._buffer)))

\* [...buffer]: the iterator yields get(0), ..., get(_size - 1).
Traversal(b) == [i \in 1..b._size |-> get(b, i - 1)]

\* The loop of push writing every item to the slot of the first one.
RECURSIVE pushLoop_sameSlot(_, _, _, _)
pushLoop_sameSlot(b, buf, items, i) ==
  IF i >= Len(items) THEN buf
  ELSE LET index == JsMod(JsAdd(b._position, b._size), Length(b._buffer))
       IN pushLoop_sameSlot(b, ArrSet(buf, index, items[i + 1]), items, i + 1)

\* The loop of push: items[i] is written to slot (_position + _size + i) % capacity,
\* with _position and _size as they were on entry.
RECURSIVE pushLoop(_, _, _, _)
pushLoop(b, buf, items, i) ==
  IF i >= Len(items) THEN buf
  ELSE LET index == JsMod(JsAdd(b._position, b._size + i), Length(b._buffer))
       IN pushLoop(b, ArrSet(buf, index, items[i + 1]), items, i + 1)

\* push that never advances _position over the overwritten elements.
push_positionKept(b, items) ==
  LET cap == Length(b._buffer)
  IN CircularBuffer(pushLoop(b, b._buffer, items, 0),
                    Min(b._size + Len(items), cap),
                    JsMod(b._position, cap))

\* push that does not cap _size at the capacity.
push_sizeUncapped(b, items) ==
  LET cap == Length(b._buffer)
      overlap == Max(b._size + Len(items) - cap, 0)
  IN CircularBuffer(pushLoop(b, b._buffer, items, 0),
                    b._size + Len(items),
                    JsMod(JsAdd(b._position, overlap), cap))

\* push that advances _position without wrapping it.
push_noWrap(b, items) ==
  LET cap == Length(b._buffer)
      overlap == Max(b._size + Len(items) - cap, 0)
  IN CircularBuffer(pushLoop(b, b._buffer, items, 0),
                    Min(b._size + Len(items), cap),
                    JsAdd(b._position, overlap))

push(b, items) ==
  LET cap == Length(b._buffer)
      overlap == Max(b._size + Len(items) - cap, 0)
  IN CircularBuffer(pushLoop(b, b._buffer, items, 0),
                    Min(b._size + Len(items), cap),
                    JsMod(JsAdd(b._position, overlap), cap))

\* pop that advances _position as shift does.
pop_positionMoved(b) ==
  IF b._size = 0 THEN [obj |-> b, ret |-> Undefined]
  ELSE [obj |-> [b EXCEPT !._position = JsMod(JsAdd(b._position, 1), Length(b._buffer)),
                          !._size = b._size - 1],
        ret |-> ArrGet(b._buffer, JsAdd(b._position, b._size - 1))]

\* pop without the guard on an empty buffer.
pop_unguarded(b) ==
  [obj |-> [b EXCEPT !._size = b._size - 1],
   ret |-> ArrGet(b._buffer, JsAdd(b._position, b._size - 1))]

pop(b) ==
  IF b._size = 0 THEN [obj |-> b, ret |-> Undefined]
  ELSE [obj |-> [b EXCEPT !._size = b._size - 1],
        ret |-> ArrGet(b._buffer, JsAdd(b._position, b._size - 1))]

\* shift that advances _position without wrapping it.
shift_noWrap(b) ==
  IF b._size = 0 THEN [obj |-> b, ret |-> Undefined]
  ELSE [obj |-> [b EXCEPT !._position = JsAdd(b._position, 1),
                          !._size = b._size - 1],
        ret |-> ArrGet(b._buffer, b._position)]

\* shift that reads the slot after advancing _position.
shift_readAfterAdvance(b) ==
  IF b._size = 0 THEN [obj |-> b, ret |-> Undefined]
  ELSE LET next == JsMod(JsAdd(b._position, 1), Length(b._buffer))
       IN [obj |-> [b EXCEPT !._position = next, !._size = b._size - 1],
           ret |-> ArrGet(b._buffer, next)]

shift(b) ==
  IF b._size = 0 THEN [obj |-> b, ret |-> Undefined]
  ELSE [obj |-> [b EXCEPT !._position = JsMod(JsAdd(b._position, 1), Length(b._buffer)),
                          !._size = b._size - 1],
        ret |-> ArrGet(b._buffer, b._position)]

\* set that takes the logical index for the physical slot.
set_positionIgnored(b, index, item) ==
  IF index <= 0 - b._size \/ index >= b._size THEN [obj |-> b, thrown |-> TRUE]
  ELSE LET boundedIndex == IF index < 0 THEN b._size + index ELSE index
           slot == JsMod(boundedIndex, Length(b._buffer))
       IN [obj |-> [b EXCEPT !._buffer = ArrSet(b._buffer, slot, item)],
           thrown |-> FALSE]

\* thrown is TRUE when the call throws RangeError; the object is then untouched.
set(b, index, item) ==
  IF index <= 0 - b._size \/ index >= b._size THEN [obj |-> b, thrown |-> TRUE]
  ELSE LET boundedIndex == IF index < 0 THEN b._size + index ELSE index
           slot == JsMod(JsAdd(b._position, boundedIndex), Length(b._buffer))
       IN [obj |-> [b EXCEPT !._buffer = ArrSet(b._buffer, slot, item)],
           thrown |-> FALSE]

\* clear that forgets to reset _size.
clear_sizeKept(b) == CircularBuffer(b._buffer, b._size, 0)

clear(b) == CircularBuffer(Truncate(b._buffer), 0, 0)

\* The loop of resize copying the newest newSize elements.
RECURSIVE resizeLoop_newest(_, _, _, _)
resizeLoop_newest(b, newBuffer, newSize, i) ==
  IF i >= newSize THEN newBuffer
  ELSE resizeLoop_newest(b, ArrSet(newBuffer, i, get(b, b._size - newSize + i)),
                         newSize, i + 1)

\* The loop of resize copying physical slots instead of logical elements.
RECURSIVE resizeLoop_physical(_, _, _, _)
resizeLoop_physical(b, newBuffer, newSize, i) ==
  IF i >= newSize THEN newBuffer
  ELSE resizeLoop_physical(b, ArrSet(newBuffer, i, ArrGet(b._buffer, i)), newSize, i + 1)

RECURSIVE resizeLoop(_, _, _, _)
resizeLoop(b, newBuffer, newSize, i) ==
  IF i >= newSize THEN newBuffer
  ELSE resizeLoop(b, ArrSet(newBuffer, i, get(b, i)), newSize, i + 1)

\* resize that leaves _position where it was.
resize_positionKept(b, newCapacity) ==
  LET newSize == Min(b._size, newCapacity)
  IN CircularBuffer(resizeLoop(b, NewArray(newCapacity), newSize, 0), newSize, b._position)

\* resize that takes the new capacity for the new size.
resize_sizeIsCapacity(b, newCapacity) ==
  LET newSize == Min(b._size, newCapacity)
  IN CircularBuffer(resizeLoop(b, NewArray(newCapacity), newSize, 0), newCapacity, 0)

resize(b, newCapacity) ==
  LET newSize == Min(b._size, newCapacity)
  IN CircularBuffer(resizeLoop(b, NewArray(newCapacity), newSize, 0), newSize, 0)

\* clone that hands its own backing array to the new object.
clone_sharedBuffer(b) ==
  [obj |-> CircularBuffer(b._buffer, b._size, b._position), sharesBuffer |-> TRUE]

\* obj is the new object; sharesBuffer tells whether its _buffer is the very
\* array object of b (slice() returns a new array, so it is not).
clone(b) ==
  [obj |-> CircularBuffer(Slice(b._buffer), b._size, b._position), sharesBuffer |-> FALSE]

\* ---------------------------------------------------------------- state
\* this    the buffer object
\* op      the method called last (the factory, right after construction)
\* args    the arguments of that call
\* ret     the value that call returned (Undefined when it returns none)
\* thrown  whether that call threw RangeError
\* prev    the object as it was when that call began
\* drainFrom  the traversal as it was when the current run of consecutive
\*            shift() calls began
\* drained    what the shift() calls of that run returned, in order (the first
\*            MaxDrain of them)
\* other    the object clone() returned (NoBuffer before any clone() call)
\* aliased  whether this._buffer and other._buffer are one array object
\* target   which of the two is mutated after the clone() call
\* snap     size, capacity and traversal of the object that is not the target,
\*          as they were when clone() returned
VARIABLES this, op, args, ret, thrown, prev, drainFrom, drained,
          other, aliased, target, snap

cloneVars == <<other, aliased, target, snap>>

vars == <<this, op, args, ret, thrown, prev, drainFrom, drained, cloneVars>>

NoBuffer == [_buffer |-> NewArray(0), _size |-> NaN, _position |-> NaN]

Observed(b) == [size |-> size(b), capacity |-> capacity(b), traversal |-> Traversal(b)]

\* Long enough to hold a full drain and two shift() calls on the emptied buffer.
MaxDrain == MaxCap + 2

NoArgs == [items |-> <<>>, index |-> 0, item |-> Undefined, newCapacity |-> 0]

Call(name, a, before, after, r, t) ==
  /\ op' = name
  /\ args' = a
  /\ prev' = before
  /\ this' = after
  /\ ret' = r
  /\ thrown' = t
  /\ drainFrom' = IF name = "shift" THEN drainFrom ELSE Traversal(this')
  /\ drained' = IF name # "shift" THEN <<>>
                ELSE IF Len(drained) < MaxDrain THEN Append(drained, ret')
                ELSE drained
  /\ UNCHANGED cloneVars

Init ==
  /\ \/ \E c \in Capacities :
          /\ this = withCapacity(c)
          /\ op = "withCapacity"
          /\ args = [NoArgs EXCEPT !.newCapacity = c]
     \/ \E s \in SeqsUpTo(MaxCap) :
          /\ this = from(s)
          /\ op = "from"
          /\ args = [NoArgs EXCEPT !.items = s]
  /\ ret = Undefined
  /\ thrown = FALSE
  /\ prev = this
  /\ drainFrom = Traversal(this)
  /\ drained = <<>>
  /\ other = NoBuffer
  /\ aliased = FALSE
  /\ target = "original"
  /\ snap = Observed(NoBuffer)

Push ==
  \E items \in SeqsUpTo(MaxPush) :
    Call("push", [NoArgs EXCEPT !.items = items], this, push(this, items), Undefined, FALSE)

Pop == Call("pop", NoArgs, this, pop(this).obj, pop(this).ret, FALSE)

Shift == Call("shift", NoArgs, this, shift(this).obj, shift(this).ret, FALSE)

Set ==
  \E index \in Indices, item \in Values :
    Call("set", [NoArgs EXCEPT !.index = index, !.item = item], this,
         set(this, index, item).obj, Undefined, set(this, index, item).thrown)

Get ==
  \E index \in Indices :
    Call("get", [NoArgs EXCEPT !.index = index], this, this, get(this, index), FALSE)

Clear == Call("clear", NoArgs, this, clear(this), Undefined, FALSE)

Resize ==
  \E newCapacity \in Capacities :
    Call("resize", [NoArgs EXCEPT !.newCapacity = newCapacity], this,
         resize(this, newCapacity), Undefined, FALSE)

Size == Call("size", NoArgs, this, this, size(this), FALSE)

Capacity == Call("capacity", NoArgs, this, this, capacity(this), FALSE)

\* [...buffer]: ret is the sequence of the values the iterator yielded.
Iterate == Call("iterate", NoArgs, this, this, Traversal(this), FALSE)

Next ==
  \/ Push \/ Pop \/ Shift \/ Set \/ Get \/ Clear \/ Resize
  \/ Size \/ Capacity \/ Iterate

Spec == Init /\ [][Next]_vars

\* ------------------------------------------------- two buffers: clone()
\* The mutating calls, as name and arguments; push with no item or with one
\* (a batch leaves the state its items pushed one by one leave).
Mutations ==
  {[name |-> "push", args |-> [NoArgs EXCEPT !.items = s]] : s \in SeqsUpTo(1)}
  \cup {[name |-> "set", args |-> [NoArgs EXCEPT !.index = i, !.item = v]] :
          i \in Indices, v \in Values}
  \cup {[name |-> "resize", args |-> [NoArgs EXCEPT !.newCapacity = c]] : c \in Capacities}
  \cup {[name |-> n, args |-> NoArgs] : n \in {"pop", "shift", "clear"}}

\* The object b after the call m.
Apply(b, m) ==
  CASE m.name = "push" -> push(b, m.args.items)
    [] m.name = "pop" -> pop(b).obj
    [] m.name = "shift" -> shift(b).obj
    [] m.name = "set" -> set(b, m.args.index, m.args.item).obj
    [] m.name = "clear" -> clear(b)
    [] m.name = "resize" -> resize(b, m.args.newCapacity)

\* resize gives the object a new array; every other call works on the array
\* the object holds, so an object sharing that array sees it change.
Seen(b, mutated, m) ==
  IF aliased /\ m.name # "resize" THEN [b EXCEPT !._buffer = mutated._buffer] ELSE b

\* Of the last call only the kind is recorded: "clone" or "mutate".
Quiet(name) ==
  /\ op' = name
  /\ args' = NoArgs
  /\ ret' = Undefined
  /\ thrown' = FALSE
  /\ prev' = this'
  /\ drainFrom' = <<>>
  /\ drained' = <<>>

\* A mutation of the buffer before it is cloned.
Prepare ==
  /\ other = NoBuffer
  /\ \E m \in Mutations :
       /\ this' = Apply(this, m)
       /\ Quiet("mutate")
  /\ UNCHANGED cloneVars

\* other = this.clone(), and the choice of the object mutated from then on.
Clone ==
  /\ other = NoBuffer
  /\ other' = clone(this).obj
  /\ aliased' = clone(this).sharesBuffer
  /\ \E tg \in {"original", "clone"} :
       /\ target' = tg
       /\ snap' = Observed(IF tg = "original" THEN other' ELSE this)
  /\ this' = this
  /\ Quiet("clone")

\* A mutation of the clone.
MutateClone ==
  /\ other # NoBuffer
  /\ target = "clone"
  /\ \E m \in Mutations :
       /\ other' = Apply(other, m)
       /\ this' = Seen(this, other', m)
       /\ aliased' = (aliased /\ m.name # "resize")
       /\ Quiet("mutate")
  /\ UNCHANGED <<target, snap>>

\* A mutation of the original after it was cloned.
MutateOriginal ==
  /\ other # NoBuffer
  /\ target = "original"
  /\ \E m \in Mutations :
       /\ this' = Apply(this, m)
       /\ other' = Seen(other, this', m)
       /\ aliased' = (aliased /\ m.name # "resize")
       /\ Quiet("mutate")
  /\ UNCHANGED <<target, snap>>

NextClone == Prepare \/ Clone \/ MutateClone \/ MutateOriginal

SpecClone == Init /\ [][NextClone]_vars

\* --------------------------------------------------------------- claims
\* The occupied run of b passes the end of the backing store.
Wrapped(b) == b._size > 0 /\ b._position + b._size > capacity(b)

\* The last n elements of s.
LastN(s, n) == SubSeq(s, Len(s) - n + 1, Len(s))

\* The logical index a set/get index denotes in b.
Logical(b, index) == IF index < 0 THEN index + size(b) ELSE index

\* C1: after push(items) on a buffer of capacity c holding k elements, size is
\* min(k + |items|, c) and the traversal is the last min(k + |items|, c) elements
\* of the old traversal followed by items, whatever the length of the batch.
C1_PushKeepsNewest ==
  op = "push" =>
    LET all == Traversal(prev) \o args.items
        n == Min(size(prev) + Len(args.items), capacity(prev))
    IN /\ size(this) = n
       /\ Traversal(this) = LastN(all, n)

\* A batch longer than the capacity pushed into a wrapped, non-empty buffer.
C1_Witness ==
  /\ op = "push"
  /\ Wrapped(prev)
  /\ Len(args.items) > capacity(prev)
  /\ size(this) = capacity(this)

\* C2: pop() on a non-empty buffer returns what get(size - 1) returned before the
\* call, wrapped or not, and it returns the empty signal only when size is 0.
C2_PopReturnsLast ==
  op = "pop" =>
    /\ size(prev) > 0 => ret = get(prev, size(prev) - 1)
    /\ ret = Undefined => size(prev) = 0

\* C3: shift() on a non-empty buffer returns what get(0) returned before the call,
\* takes one off size, moves position to (position + 1) mod capacity, and leaves
\* the previous traversal without its first element.
C3_ShiftRemovesFirst ==
  (op = "shift" /\ size(prev) > 0) =>
    /\ ret = get(prev, 0)
    /\ size(this) = size(prev) - 1
    /\ this._position = (prev._position + 1) % capacity(prev)
    /\ Traversal(this) = Tail(Traversal(prev))

\* shift() with the oldest element in the last slot: position wraps to 0.
C3_Witness ==
  /\ op = "shift"
  /\ size(prev) > 1
  /\ prev._position = capacity(prev) - 1
  /\ this._position = 0
  /\ ret \in Values

\* C4: set(index, value) throws exactly when index < -size or index >= size, so
\* it succeeds for every index in -size .. size - 1, index -size included.
C4_SetRange ==
  op = "set" =>
    (thrown <=> (args.index < 0 - size(prev) \/ args.index >= size(prev)))

\* C5: get(index) is the absent signal for index < -size and index >= size, and
\* for -size <= index < 0 it is get(index + size), the element counted from the
\* newest one.
C5_GetNegativeAlias ==
  /\ \A index \in Indices :
       /\ (index < 0 - size(this) \/ index >= size(this)) => get(this, index) = Undefined
       /\ (0 - size(this) <= index /\ index < 0) =>
            get(this, index) = get(this, index + size(this))
  /\ op = "get" =>
       /\ (args.index < 0 - size(this) \/ args.index >= size(this)) => ret = Undefined
       /\ (0 - size(this) <= args.index /\ args.index < 0) =>
            ret = Traversal(this)[args.index + size(this) + 1]

\* get(-size) on a wrapped buffer returned the oldest element.
C5_Witness ==
  /\ op = "get"
  /\ Wrapped(this)
  /\ size(this) > 1
  /\ args.index = 0 - size(this)
  /\ ret \in Values
  /\ ret = Traversal(this)[1]

\* C6: after a set(i, v) that did not throw, get(i) is v, size, position and
\* capacity are what they were, and get(j) is what it was for every other
\* logical index j.
C6_SetGetRoundTrip ==
  (op = "set" /\ ~thrown) =>
    /\ get(this, args.index) = args.item
    /\ size(this) = size(prev)
    /\ this._position = prev._position
    /\ capacity(this) = capacity(prev)
    /\ \A j \in 0..(size(prev) - 1) :
         j # Logical(prev, args.index) => get(this, j) = get(prev, j)

\* A negative index set on a wrapped buffer, changing the element it denotes.
C6_Witness ==
  /\ op = "set"
  /\ ~thrown
  /\ Wrapped(prev)
  /\ size(prev) > 1
  /\ args.index < 0
  /\ get(prev, args.index) # args.item
  /\ get(this, args.index) = args.item

\* C7: clear() keeps the capacity and resets size and position to 0; capacity
\* changes through resize only.
C7_ClearKeepsCapacity ==
  /\ op = "clear" =>
       /\ capacity(this) = capacity(prev)
       /\ size(this) = 0
       /\ this._position = 0
  /\ op # "resize" => capacity(this) = capacity(prev)

\* C8: resize(newCapacity) with newCapacity < size leaves capacity newCapacity,
\* size newCapacity, position 0 and, as traversal, the first (oldest)
\* newCapacity elements of the previous traversal.
C8_ShrinkKeepsOldest ==
  (op = "resize" /\ args.newCapacity < size(prev)) =>
    /\ capacity(this) = args.newCapacity
    /\ size(this) = args.newCapacity
    /\ this._position = 0
    /\ Traversal(this) = SubSeq(Traversal(prev), 1, args.newCapacity)

\* A wrapped buffer shrunk to a non-zero capacity below its size.
C8_Witness ==
  /\ op = "resize"
  /\ args.newCapacity > 0
  /\ args.newCapacity < size(prev)
  /\ Wrapped(prev)
  /\ size(this) = args.newCapacity

\* C9 as stated: resize(newCapacity) with newCapacity < size leaves, as traversal,
\* the last (newest) newCapacity elements of the previous traversal.
C9_ShrinkKeepsNewest ==
  (op = "resize" /\ args.newCapacity < size(prev)) =>
    Traversal(this) = LastN(Traversal(prev), args.newCapacity)

\* C9 amended: resize(newCapacity) with newCapacity < size keeps the oldest
\* newCapacity elements at their logical indices and drops the newest
\* size - newCapacity, which get no longer returns.
C9_ShrinkDropsNewest ==
  (op = "resize" /\ args.newCapacity < size(prev)) =>
    /\ size(this) = args.newCapacity
    /\ \A j \in 0..(args.newCapacity - 1) : get(this, j) = get(prev, j)
    /\ \A j \in args.newCapacity..(size(prev) - 1) : get(this, j) = Undefined

\* A shrink whose oldest and newest newCapacity elements differ.
C9_Witness ==
  /\ op = "resize"
  /\ args.newCapacity > 0
  /\ args.newCapacity < size(prev)
  /\ Traversal(this) # LastN(Traversal(prev), args.newCapacity)
  /\ Traversal(this) = SubSeq(Traversal(prev), 1, args.newCapacity)

\* C10: resize(newCapacity) with newCapacity >= size leaves capacity newCapacity,
\* the same size, position 0 and the same traversal, and a following push of up
\* to newCapacity - size items appends them and drops nothing.
C10_GrowKeepsContents ==
  (op = "resize" /\ args.newCapacity >= size(prev)) =>
    /\ capacity(this) = args.newCapacity
    /\ size(this) = size(prev)
    /\ this._position = 0
    /\ Traversal(this) = Traversal(prev)
    /\ \A items \in SeqsUpTo(args.newCapacity - size(prev)) :
         /\ size(push(this, items)) = size(prev) + Len(items)
         /\ Traversal(push(this, items)) = Traversal(prev) \o items

\* A buffer whose oldest element is not in slot 0 given room for more elements
\* than it holds.
C10_Witness ==
  /\ op = "resize"
  /\ prev._position > 0
  /\ size(prev) > 0
  /\ args.newCapacity > size(prev)
  /\ this._position = 0
  /\ Traversal(this) = Traversal(prev)

\* C12: 0 <= size() <= capacity() after any sequence of operations from either
\* factory; in particular capacity() = 0 implies size() = 0.
C12_SizeWithinCapacity ==
  /\ 0 <= size(this)
  /\ size(this) <= capacity(this)
  /\ capacity(this) = 0 => size(this) = 0

\* A push of more items than the free space filled the buffer to its capacity.
C12_Witness ==
  /\ op = "push"
  /\ capacity(prev) > 0
  /\ size(prev) + Len(args.items) > capacity(prev)
  /\ size(this) = capacity(this)

\* C13: push on a buffer of capacity 0 changes nothing and leaves position a
\* valid integer, and push of zero items changes nothing at any capacity.
C13_PushNoOp ==
  (op = "push" /\ (capacity(prev) = 0 \/ args.items = <<>>)) =>
    /\ this = prev
    /\ this._position # NaN

\* C14: pop() on a non-empty buffer takes one off size, leaves position and
\* capacity alone, and leaves the previous traversal without its last element.
C14_PopRemovesLast ==
  (op = "pop" /\ size(prev) > 0) =>
    /\ size(this) = size(prev) - 1
    /\ this._position = prev._position
    /\ capacity(this) = capacity(prev)
    /\ Traversal(this) = SubSeq(Traversal(prev), 1, size(prev) - 1)

\* pop() on a wrapped buffer holding more than one element.
C14_Witness ==
  /\ op = "pop"
  /\ Wrapped(prev)
  /\ size(prev) > 1
  /\ size(this) = size(prev) - 1

\* C15: pop() and shift() on an empty buffer return the empty signal, throw
\* nothing and change nothing; get, size(), capacity() and a traversal never
\* change the buffer.
C15_ProbesChangeNothing ==
  /\ (op \in {"pop", "shift"} /\ size(prev) = 0) =>
       /\ ret = Undefined
       /\ ~thrown
       /\ this = prev
  /\ op \in {"get", "size", "capacity", "iterate"} => this = prev

\* shift() on a buffer that a drain emptied, its capacity still positive.
C15_Witness ==
  /\ op = "shift"
  /\ size(prev) = 0
  /\ capacity(prev) > 0
  /\ Len(drained) > Len(drainFrom)
  /\ Len(drainFrom) > 0
  /\ ret = Undefined

\* C16: right after clear(), size() is 0, the traversal is empty and get(index)
\* is the absent signal for every index.
C16_ClearForgetsValues ==
  op = "clear" =>
    /\ size(this) = 0
    /\ Traversal(this) = <<>>
    /\ \A index \in Indices : get(this, index) = Undefined

\* clear() on a buffer that held elements.
C16_Witness ==
  /\ op = "clear"
  /\ size(prev) > 1
  /\ get(prev, 0) \in Values
  /\ size(this) = 0

\* C17: for every logical index i below size, physical slot
\* (position + i) mod capacity holds a value supplied through from, push or
\* set, and get(i) is that value.
C17_OccupiedRun ==
  \A i \in 0..(size(this) - 1) :
    /\ capacity(this) > 0
    /\ ArrGet(this._buffer, (this._position + i) % capacity(this)) \in Values
    /\ get(this, i) = ArrGet(this._buffer, (this._position + i) % capacity(this))

\* A wrapped run of more than one element.
C17_Witness ==
  /\ Wrapped(this)
  /\ size(this) > 1
  /\ this._position > 0
  /\ get(this, size(this) - 1) = ArrGet(this._buffer, 0)

\* C18: whenever capacity is positive, position is an integer with
\* 0 <= position < capacity.
C18_PositionInRange ==
  capacity(this) > 0 =>
    /\ this._position # NaN
    /\ 0 <= this._position
    /\ this._position < capacity(this)

\* A push moved position over overwritten elements to the last slot.
C18_Witness ==
  /\ op = "push"
  /\ capacity(this) > 1
  /\ prev._position # this._position
  /\ this._position = capacity(this) - 1

\* push(a1), ..., push(an) made in order on b.
RECURSIVE PushEach(_, _)
PushEach(b, items) ==
  IF items = <<>> THEN b ELSE PushEach(push(b, <<Head(items)>>), Tail(items))

\* C19: with capacity > 0, one batch push(a1, ..., an) leaves the buffer in the
\* state (size, position, backing store) that push(a1), ..., push(an) leave.
C19_BatchEqualsSingles ==
  (op = "push" /\ capacity(prev) > 0) => this = PushEach(prev, args.items)

\* A batch of more items than the capacity pushed into a non-empty buffer.
C19_Witness ==
  /\ op = "push"
  /\ capacity(prev) > 0
  /\ size(prev) > 0
  /\ Len(args.items) > capacity(prev)
  /\ this = PushEach(prev, args.items)

\* C20: consecutive shift() calls from a buffer with traversal e0, ..., e(n-1)
\* return e0, ..., e(n-1) in that order; after n of them size() is 0 and every
\* further shift() returns the empty signal.
C20_DrainIsFifo ==
  /\ \A k \in 1..Len(drained) :
       drained[k] = IF k <= Len(drainFrom) THEN drainFrom[k] ELSE Undefined
  /\ Len(drained) < MaxDrain =>
       size(this) = Max(Len(drainFrom) - Len(drained), 0)
  /\ Len(drained) >= Len(drainFrom) => size(this) = 0

\* A full buffer with distinct oldest and newest elements drained, then shifted
\* once more.
C20_Witness ==
  /\ op = "shift"
  /\ Len(drainFrom) > 1
  /\ drainFrom[1] # drainFrom[Len(drainFrom)]
  /\ Len(drained) = Len(drainFrom) + 1
  /\ drained[Len(drained)] = Undefined
  /\ size(this) = 0

\* C11: clone() returns a buffer with the size, position, capacity and
\* traversal of the original, and whatever mutations are then applied to one of
\* the two, the other keeps the size, capacity and traversal it had.
C11_CloneIndependent ==
  other # NoBuffer =>
    /\ op = "clone" =>
         /\ size(other) = size(this)
         /\ other._position = this._position
         /\ capacity(other) = capacity(this)
         /\ Traversal(other) = Traversal(this)
    /\ Observed(IF target = "original" THEN other ELSE this) = snap

\* A non-empty buffer whose clone was mutated into a different traversal.
C11_Witness ==
  /\ other # NoBuffer
  /\ target = "clone"
  /\ op = "mutate"
  /\ size(this) > 1
  /\ this._position > 0
  /\ capacity(other) = capacity(this)
  /\ Traversal(other) # Traversal(this)

====
